---- MODULE Spec2Model ----
(***************************************************************************)
(* Image-analyzer backend: the processing pipeline                         *)
(* (ImageProcessingService.process_image), the repositories it drives      *)
(* (ImageRepository, StorageRepository), the codec helpers, the vision     *)
(* analyzer and the three ingress routes that create records and schedule  *)
(* background invocations.                                                 *)
(*                                                                         *)
(* Every call to the database, to object storage or to the analyzer is one *)
(* atomic step; background invocations run in worker threads and           *)
(* interleave with each other and with the request handler at these steps. *)
(* Every such call can raise (network / backend error).                    *)
(***************************************************************************)
EXTENDS Integers, Sequences, FiniteSets, TLC

\* ---------------------------------------------------------------- bounds
MaxImages == 1      \* image records that may be created
MaxProcs == 2       \* process_image invocations that may be started
MaxOriginals == 1   \* original objects POST /images/upload may store

\* ------------------------------------------------------- program constants
max_tags == 8       \* Settings.max_tags (AI_TAG_COUNT)
top_n == 3          \* extract_dominant_colors(original_bytes, top_n=3)

Users == {"u1", "u2"}
\* the users who create images; by symmetry of the two users one is enough
Uploaders == {"u1"}
Procs == 1..MaxProcs
ImageIds == 1..MaxImages

\* Optional[...] values: None, or a one-element tuple holding the value.
None == <<>>
Some(x) == <<x>>

Min(a, b) == IF a <= b THEN a ELSE b

\* ------------------------------------------------------------------ paths
\* f"{user_id}/original/{uuid}.{ext}" and f"{user_id}/thumbnails/{uuid}.jpg"
StoragePath(user_id, kind, uuid) == [user |-> user_id, kind |-> kind, uuid |-> uuid]
\* a path named by a client request that no object was ever stored under
ClientPath == StoragePath("client", "original", 0)
NoPath == StoragePath("", "", 0)

\* ------------------------------------------------------------ image codec
\* Contents of an uploaded file: a decodable many-coloured picture, a
\* decodable single-colour picture, or bytes PIL cannot open.
ImageContents == {"photo", "solid", "junk"}
Decodable(bytes) == bytes \in {"photo", "solid"}

\* create_thumbnail: Image.open raises on undecodable bytes; otherwise a JPEG.
create_thumbnail(image_bytes) == "jpeg"

\* quantized.getcolors(), sorted by population, descending: the palette
\* entries that are actually used by the quantized picture.
color_counts(image_bytes) ==
    IF image_bytes = "photo" THEN <<"#a01010", "#10a010", "#1010a0">>
    ELSE <<"#ffffff">>

\* the slice color_counts[:top_n] taken one short (a faulty variant: C12 must
\* fail with it)
extract_dominant_colors_one_short(image_bytes, n) ==
    SubSeq(color_counts(image_bytes), 1, Min(n - 1, Len(color_counts(image_bytes))))

extract_dominant_colors(image_bytes, n) ==
    SubSeq(color_counts(image_bytes), 1, Min(n, Len(color_counts(image_bytes))))

\* -------------------------------------------------------- vision analyzer
\* JSON values of the parsed answer: strings and non-strings.
JStr(s) == [t |-> "str", v |-> s]
JNum(s) == [t |-> "num", v |-> s]

\* str.strip() on the strings that occur
strip(s) == IF s = " sea " THEN "sea" ELSE s

RECURSIVE string_tags(_)
\* [tag.strip() for tag in parsed.get("tags", []) if isinstance(tag, str)]
string_tags(raw) ==
    IF raw = <<>> THEN <<>>
    ELSE IF Head(raw).t = "str"
         THEN <<strip(Head(raw).v)>> \o string_tags(Tail(raw))
         ELSE string_tags(Tail(raw))

\* the tags returned without the slice (a faulty variant: C11 must fail with it)
truncate_nothing(tags, m) == tags

\* tags[: self.settings.max_tags]
truncate(tags, m) == SubSeq(tags, 1, Min(m, Len(tags)))

\* the two answers the model lets the analyzer give
LongAnswer ==
    [description |-> JStr("a harbour at dusk"),
     tags |-> <<JStr("t01"), JStr("t02"), JStr("t03"), JStr("t04"),
                JStr("t05"), JStr("t06"), JStr("t07"), JStr("t08"),
                JStr("t09"), JStr("t10"), JStr("t11"), JStr("t12")>>]
OddAnswer ==
    [description |-> JNum("42"),
     tags |-> <<JStr(" sea "), JNum("7"), JStr("boat")>>]
AnalyzerAnswers == {LongAnswer, OddAnswer}

\* AIService.analyze_image, from the parsed JSON on
analyze_image(parsed) ==
    [tags |-> truncate(string_tags(parsed.tags), max_tags),
     description |-> parsed.description]

\* description if isinstance(description, str) else ""
description_text(description) == IF description.t = "str" THEN description.v ELSE ""

\* ------------------------------------------------------------------ state
VARIABLES
    images,          \* table "images": row id -> [user_id, original_path, thumbnail_path]
    image_metadata,  \* table "image_metadata": row id -> metadata row
    storage,         \* the bucket: path -> stored bytes
    task,            \* the process_image invocations: frame of each
    req              \* the request the event loop is handling

vars == <<images, image_metadata, storage, task, req>>

Statuses == {"pending", "processing", "completed", "failed"}

\* ------------------------------------------------------- ImageRepository
\* verify_image_ownership with the .eq("user_id", user_id) filter left out
\* (a faulty variant: C3 must fail with it)
verify_image_exists(image_id, user_id) == image_id \in DOMAIN images

\* verify_image_ownership: a row of "images" with this id and this user_id
verify_image_ownership(image_id, user_id) ==
    /\ image_id \in DOMAIN images
    /\ images[image_id].user_id = user_id

\* rows of image_metadata with .eq("image_id", ..).eq("user_id", ..)
metadata_rows(image_id, user_id) ==
    {r \in DOMAIN image_metadata :
        /\ image_metadata[r].image_id = image_id
        /\ image_metadata[r].user_id = user_id}

\* get_metadata: None (0) when nothing matches, else response.data[0]; the
\* select has no ORDER BY, so data[0] is any of the matching rows.
get_metadata(image_id, user_id) ==
    IF metadata_rows(image_id, user_id) = {} THEN {0}
    ELSE metadata_rows(image_id, user_id)

\* create_initial_metadata: the inserted row
initial_metadata(image_id, user_id, status) ==
    [image_id |-> image_id, user_id |-> user_id, ai_processing_status |-> status,
     description |-> None, tags |-> None, colors |-> None]

\* the update writing the whole payload, absent fields as NULL (a faulty
\* variant: C16 must fail with it)
updated_row_whole_payload(row, image_id, user_id, description, tags, colors, status) ==
    [image_id |-> image_id, user_id |-> user_id, ai_processing_status |-> status,
     description |-> description, tags |-> tags, colors |-> colors]

\* upsert_metadata, the update branch: the payload carries image_id, user_id,
\* the status, and only those optional fields that are not None.
updated_row(row, image_id, user_id, description, tags, colors, status) ==
    [image_id |-> image_id, user_id |-> user_id, ai_processing_status |-> status,
     description |-> IF description # None THEN description ELSE row.description,
     tags |-> IF tags # None THEN tags ELSE row.tags,
     colors |-> IF colors # None THEN colors ELSE row.colors]

\* upsert_metadata as delete and insert (a faulty variant: C15 must fail with
\* it)
upsert_metadata_replacing(existing, image_id, user_id, description, tags, colors, status) ==
    [r \in DOMAIN image_metadata \cup {IF existing # 0 THEN existing ELSE Len(image_metadata) + 1} |->
        IF r = existing \/ r = Len(image_metadata) + 1
        THEN [image_id |-> image_id, user_id |-> user_id, ai_processing_status |-> status,
              description |-> description, tags |-> tags, colors |-> colors]
        ELSE image_metadata[r]]

\* upsert_metadata with a status check before the update: a `completed` row
\* is left alone (a faulty variant: C9 must fail with it)
upsert_metadata_unless_completed(existing, image_id, user_id, description, tags, colors, status) ==
    IF existing # 0
    THEN IF image_metadata[existing].ai_processing_status = "completed"
         THEN image_metadata
         ELSE [image_metadata EXCEPT ![existing] =
                updated_row(@, image_id, user_id, description, tags, colors, status)]
    ELSE Append(image_metadata,
            [image_id |-> image_id, user_id |-> user_id,
             ai_processing_status |-> status,
             description |-> description, tags |-> tags, colors |-> colors])

\* upsert_metadata, the write after its get_metadata returned `existing`
upsert_metadata(existing, image_id, user_id, description, tags, colors, status) ==
    IF existing # 0
    THEN [image_metadata EXCEPT ![existing] =
            updated_row(@, image_id, user_id, description, tags, colors, status)]
    ELSE Append(image_metadata,
            [image_id |-> image_id, user_id |-> user_id,
             ai_processing_status |-> status,
             description |-> description, tags |-> tags, colors |-> colors])

\* the update matching no row (a faulty variant: C20 must fail with it)
update_thumbnail_path_nowhere(image_id, thumbnail_path) == images

\* update_thumbnail_path: update ... where id = image_id
update_thumbnail_path(image_id, thumbnail_path) ==
    IF image_id \in DOMAIN images
    THEN [images EXCEPT ![image_id].thumbnail_path = Some(thumbnail_path)]
    ELSE images

\* create_image with the original's path as the thumbnail path (a faulty
\* variant: C23 must fail with it)
image_record_thumbnail_preset(user_id, original_path) ==
    [user_id |-> user_id, original_path |-> original_path,
     thumbnail_path |-> Some(original_path)]

\* create_image: the inserted row (thumbnail_path defaults to None)
image_record(user_id, original_path) ==
    [user_id |-> user_id, original_path |-> original_path, thumbnail_path |-> None]

\* ------------------------------------------------------------------ uuid4
UsedUuids ==
    {q.uuid : q \in DOMAIN storage} \cup {task[p].thumbnail_path.uuid : p \in Procs}
        \cup {req.path.uuid}
\* the path named after the image instead (a faulty variant: C17 must fail
\* with it)
uuid4_image_id == Len(images) + 1

\* uuid.uuid4(): an identifier no path holds yet
uuid4 == CHOOSE n \in 1..(Cardinality(UsedUuids) + 1) : n \notin UsedUuids

\* ------------------------------------------------------------------- Init
IdleTask ==
    [pc |-> "idle", image_id |-> 0, user_id |-> "", original_path |-> NoPath,
     existing |-> 0, original_bytes |-> "",
     thumbnail_path |-> NoPath, analysis |-> None, exc |-> "", reported |-> "",
     calls |-> <<>>]

IdleReq == [route |-> "", pc |-> "idle", user_id |-> "", image_id |-> 0, path |-> NoPath,
            data |-> ""]

Init ==
    /\ images = <<>>
    /\ image_metadata = <<>>
    /\ storage = <<>>
    /\ task = [p \in Procs |-> IdleTask]
    /\ req = IdleReq

\* ------------------------------------------- process_image: control flow
\* the try block with the analysis moved before the thumbnail (a faulty
\* variant: C7 must fail with it)
next_step_analysis_first(step) ==
    CASE step = "verify" -> "guard"
      [] step = "guard" -> "mark_read"
      [] step = "mark_read" -> "mark_write"
      [] step = "mark_write" -> "download"
      [] step = "download" -> "analyze"
      [] step = "analyze" -> "thumbnail"
      [] step = "thumbnail" -> "thumbnail_path"
      [] step = "thumbnail_path" -> "final_read"
      [] step = "final_read" -> "final_write"
      [] step = "final_write" -> "returned"

\* The statements of the try block, in program order: the step that follows
\* a step that returned normally.
next_step(step) ==
    CASE step = "verify" -> "guard"                 \* line 29 -> 33
      [] step = "guard" -> "mark_read"              \* line 33 -> 38
      [] step = "mark_read" -> "mark_write"         \* line 38 (upsert: read, write)
      [] step = "mark_write" -> "download"          \* line 38 -> 41
      [] step = "download" -> "thumbnail"           \* line 41 -> 45
      [] step = "thumbnail" -> "thumbnail_path"     \* line 47 -> 48
      [] step = "thumbnail_path" -> "analyze"       \* line 48 -> 52
      [] step = "analyze" -> "final_read"           \* line 56 -> 61
      [] step = "final_read" -> "final_write"       \* line 61 (upsert: read, write)
      [] step = "final_write" -> "returned"         \* line 69

\* the guard comparing with a status that is never stored (a faulty variant:
\* C1 must fail with it)
already_complete(existing) ==
    /\ existing # 0
    /\ image_metadata[existing].ai_processing_status = "complete"

\* the guard taking `failed` for final as well (a faulty variant: C14 must
\* fail with it)
already_finished(existing) ==
    /\ existing # 0
    /\ image_metadata[existing].ai_processing_status \in {"completed", "failed"}

\* line 34: existing and existing.get("ai_processing_status") == "completed"
already_completed(existing) ==
    /\ existing # 0
    /\ image_metadata[existing].ai_processing_status = "completed"

\* faulty variants of the statuses written: `completed` written when work
\* starts (C8 must fail with it), `processing` written on failure (C5 must
\* fail with it)
started_status_completed == "completed"
\* `pending` written when work starts (a faulty variant: C22 must fail with it)
started_status_pending == "pending"
failure_status_processing == "processing"

\* the statuses the three upsert_metadata calls write (lines 38, 67, 73)
started_status == "processing"
final_status == "completed"
failure_status == "failed"

\* `raise update_exc` where the nested try caught one (a faulty variant: C6
\* must fail with it)
raise_update_exc(exc, update_exc) == IF update_exc # "" THEN update_exc ELSE exc

\* line 76: a bare `raise` inside the handler re-raises the caught exception,
\* whatever the nested try caught or did not catch
reraised(exc, update_exc) == exc

Running(p) == task[p].pc \notin {"idle", "returned", "skipped", "raised"}

\* the frame once process_image has left: its locals are gone; what it was
\* called with, what it called and what it reported stay on record
Left(t, how) ==
    [t EXCEPT !.pc = how, !.existing = 0, !.original_bytes = "", !.analysis = None]

\* the call `name` returned; go on with the next statement
Returned(t, name) ==
    LET u == [t EXCEPT !.pc = next_step(t.pc), !.calls = Append(@, <<name, TRUE>>)]
    IN  IF u.pc = "returned" THEN Left(u, "returned") ELSE u

\* the call that raised made once more before the except block is entered (a
\* faulty variant: C18 must fail with it)
Caught_retrying(t, name, exc) ==
    IF <<name, FALSE>> \in {t.calls[i] : i \in DOMAIN t.calls}
    THEN [t EXCEPT !.pc = "fail_read", !.exc = exc, !.calls = Append(@, <<name, FALSE>>)]
    ELSE [t EXCEPT !.calls = Append(@, <<name, FALSE>>)]

\* the call `name` raised `exc`: control enters the except block (line 70)
Caught(t, name, exc) ==
    [t EXCEPT !.pc = "fail_read", !.exc = exc, !.calls = Append(@, <<name, FALSE>>)]

\* a frame for a new invocation process_image(image_id, user_id, original_path)
NewTask(image_id, user_id, original_path) ==
    [IdleTask EXCEPT !.pc = "verify", !.image_id = image_id, !.user_id = user_id,
                     !.original_path = original_path]

\* the slot the next invocation runs in
FreeSlots == {p \in Procs : task[p].pc = "idle"}
NextSlot == CHOOSE p \in FreeSlots : \A q \in FreeSlots : p <= q

\* ------------------------------------------------- process_image: steps
\* lines 29-31
VerifyOwnership(p) ==
    /\ task[p].pc = "verify"
    /\ \/ task' = [task EXCEPT ![p] =
                    Caught(@, "verify_image_ownership", "verify_image_ownership")]
       \/ /\ ~verify_image_ownership(task[p].image_id, task[p].user_id)
          /\ task' = [task EXCEPT ![p] =
                        [@ EXCEPT !.pc = "fail_read", !.exc = "ValueError",
                                  !.calls = Append(@, <<"verify_image_ownership", TRUE>>)]]
       \/ /\ verify_image_ownership(task[p].image_id, task[p].user_id)
          /\ task' = [task EXCEPT ![p] = Returned(@, "verify_image_ownership")]
    /\ UNCHANGED <<images, image_metadata, storage, req>>

\* lines 33-36
IdempotencyGuard(p) ==
    /\ task[p].pc = "guard"
    /\ \/ task' = [task EXCEPT ![p] = Caught(@, "get_metadata", "get_metadata")]
       \/ \E existing \in get_metadata(task[p].image_id, task[p].user_id) :
            IF already_completed(existing)
            THEN task' = [task EXCEPT ![p] =
                    Left([@ EXCEPT !.calls = Append(@, <<"get_metadata", TRUE>>)],
                         "skipped")]
            ELSE task' = [task EXCEPT ![p] = Returned(@, "get_metadata")]
    /\ UNCHANGED <<images, image_metadata, storage, req>>

\* upsert_metadata, first half (repository line 59): existing = get_metadata(..)
\* for the call of line 38 (mark), 61 (final) or 73 (fail)
UpsertRead(p, step, name) ==
    /\ task[p].pc = step
    /\ \/ IF step = "fail_read"
          THEN task' = [task EXCEPT ![p] =
                  Left([@ EXCEPT !.reported = reraised(task[p].exc, name),
                                 !.calls = Append(@, <<name, FALSE>>)], "raised")]
          ELSE task' = [task EXCEPT ![p] = Caught(@, name, name)]
       \/ \E existing \in get_metadata(task[p].image_id, task[p].user_id) :
            task' = [task EXCEPT ![p] =
                        [@ EXCEPT !.existing = existing,
                                  !.pc = IF step = "fail_read" THEN "fail_write"
                                         ELSE next_step(step)]]
    /\ UNCHANGED <<images, image_metadata, storage, req>>

\* line 38, second half: the update or insert of status "processing"
MarkProcessing(p) ==
    /\ task[p].pc = "mark_write"
    /\ \/ /\ task' = [task EXCEPT ![p] = Caught(@, "upsert:processing", "upsert:processing")]
          /\ UNCHANGED image_metadata
       \/ /\ image_metadata' = upsert_metadata(task[p].existing, task[p].image_id,
                                   task[p].user_id, None, None, None, started_status)
          /\ task' = [task EXCEPT ![p] = Returned([@ EXCEPT !.existing = 0],
                                                   "upsert:processing")]
    /\ UNCHANGED <<images, storage, req>>

\* line 41
Download(p) ==
    /\ task[p].pc = "download"
    /\ \/ task' = [task EXCEPT ![p] = Caught(@, "download_original", "download_original")]
       \/ /\ task[p].original_path \in DOMAIN storage
          /\ task' = [task EXCEPT ![p] =
                        Returned([@ EXCEPT !.original_bytes = storage[task[p].original_path]],
                                 "download_original")]
    /\ UNCHANGED <<images, image_metadata, storage, req>>

\* lines 45-47: thumbnail bytes, a fresh path, the upload
Thumbnail(p) ==
    /\ task[p].pc = "thumbnail"
    /\ \/ /\ ~Decodable(task[p].original_bytes)
          /\ task' = [task EXCEPT ![p] = Caught(@, "create_thumbnail", "create_thumbnail")]
          /\ UNCHANGED storage
       \/ /\ Decodable(task[p].original_bytes)
          /\ LET path == StoragePath(task[p].user_id, "thumbnails", uuid4)
                 t == [task[p] EXCEPT !.thumbnail_path = path,
                                      !.calls = Append(@, <<"create_thumbnail", TRUE>>)]
             IN  \/ /\ task' = [task EXCEPT ![p] =
                                  Caught(t, "upload_thumbnail", "upload_thumbnail")]
                    /\ UNCHANGED storage
                 \/ /\ storage' = storage @@
                            (path :> create_thumbnail(task[p].original_bytes))
                    /\ task' = [task EXCEPT ![p] = Returned(t, "upload_thumbnail")]
    /\ UNCHANGED <<images, image_metadata, req>>

\* line 48
PersistThumbnailPath(p) ==
    /\ task[p].pc = "thumbnail_path"
    /\ \/ /\ task' = [task EXCEPT ![p] =
                        Caught(@, "update_thumbnail_path", "update_thumbnail_path")]
          /\ UNCHANGED images
       \/ /\ images' = update_thumbnail_path(task[p].image_id, task[p].thumbnail_path)
          /\ task' = [task EXCEPT ![p] = Returned(@, "update_thumbnail_path")]
    /\ UNCHANGED <<image_metadata, storage, req>>

\* lines 52-58: the colours (the bytes decoded once already), then the analyzer
Analyze(p) ==
    /\ task[p].pc = "analyze"
    /\ LET t == [task[p] EXCEPT !.calls = Append(@, <<"extract_dominant_colors", TRUE>>)]
       IN  \/ task' = [task EXCEPT ![p] = Caught(t, "analyze_image", "analyze_image")]
           \/ \E parsed \in AnalyzerAnswers :
                task' = [task EXCEPT ![p] =
                            Returned([t EXCEPT !.analysis = Some(analyze_image(parsed))],
                                     "analyze_image")]
    /\ UNCHANGED <<images, image_metadata, storage, req>>

\* lines 61-69, second half: the update or insert of the results
FinalWrite(p) ==
    /\ task[p].pc = "final_write"
    /\ \/ /\ task' = [task EXCEPT ![p] = Caught(@, "upsert:completed", "upsert:completed")]
          /\ UNCHANGED image_metadata
       \/ /\ image_metadata' = upsert_metadata(task[p].existing, task[p].image_id,
                task[p].user_id,
                Some(description_text(task[p].analysis[1].description)),
                Some(task[p].analysis[1].tags),
                Some(extract_dominant_colors(task[p].original_bytes, top_n)),
                final_status)
          /\ task' = [task EXCEPT ![p] = Returned(@, "upsert:completed")]
    /\ UNCHANGED <<images, storage, req>>

\* lines 72-76, second half: the update or insert of status "failed"; an
\* exception of it is logged and dropped; then the caught exception is raised
FailWrite(p) ==
    /\ task[p].pc = "fail_write"
    /\ \/ /\ task' = [task EXCEPT ![p] =
                  Left([@ EXCEPT !.reported = reraised(task[p].exc, "upsert:failed"),
                                 !.calls = Append(@, <<"upsert:failed", FALSE>>)], "raised")]
          /\ UNCHANGED image_metadata
       \/ /\ image_metadata' = upsert_metadata(task[p].existing, task[p].image_id,
                                   task[p].user_id, None, None, None, failure_status)
          /\ task' = [task EXCEPT ![p] =
                  Left([@ EXCEPT !.reported = reraised(task[p].exc, ""),
                                 !.calls = Append(@, <<"upsert:failed", TRUE>>)], "raised")]
    /\ UNCHANGED <<images, storage, req>>

MarkRead(p) == UpsertRead(p, "mark_read", "upsert:processing")
FinalRead(p) == UpsertRead(p, "final_read", "upsert:completed")
FailRead(p) == UpsertRead(p, "fail_read", "upsert:failed")

\* ----------------------------------------------------------------- ingress
\* The routes are coroutines that call the blocking clients directly, so the
\* event loop handles one request at a time; background invocations run in
\* worker threads meanwhile.
Originals == {q \in DOMAIN storage : q.kind = "original"}
\* the original_path a client may name in a request body: a stored original,
\* or, while there is none, a path with no object (its download raises, which
\* a download of a stored object may do as well)
RequestPaths == IF Originals = {} THEN {ClientPath} ELSE Originals
ContentTypes == {"image/png", "text/plain"}
\* the uploaded file's bytes; "" is the empty file
FileContents == ImageContents \cup {""}

\* a slot is kept for the invocation an upload in flight will schedule
Reserved == IF req.route = "upload" THEN 1 ELSE 0

\* background_tasks.add_task(process_image, image_id, user_id, original_path)
add_task(image_id, user_id, original_path) ==
    [task EXCEPT ![NextSlot] = NewTask(image_id, user_id, original_path)]

\* POST /images/process, the ownership query raised: 500, nothing scheduled
ProcessFailed(user_id, image_id, original_path) ==
    /\ req.pc = "idle"
    /\ UNCHANGED <<images, image_metadata, storage, req, task>>

\* POST /images/process (routes.py 40-46): not the owner, 403
ProcessForbidden(user_id, image_id, original_path) ==
    /\ req.pc = "idle"
    /\ ~verify_image_ownership(image_id, user_id)
    /\ UNCHANGED <<images, image_metadata, storage, req, task>>

\* POST /images/process (routes.py 40-61): the owner, add_task, 202 "queued"
ProcessQueued(user_id, image_id, original_path) ==
    /\ req.pc = "idle"
    /\ verify_image_ownership(image_id, user_id)
    /\ FreeSlots # {}
    /\ task' = add_task(image_id, user_id, original_path)
    /\ UNCHANGED <<images, image_metadata, storage, req>>

\* POST /images/process (routes.py 35-61)
ProcessRoute(user_id, image_id, original_path) ==
    \/ ProcessFailed(user_id, image_id, original_path)
    \/ ProcessForbidden(user_id, image_id, original_path)
    \/ ProcessQueued(user_id, image_id, original_path)

\* POST /images/register (routes.py 71-99), up to create_image
RegisterRoute(user_id, original_path) ==
    /\ req.pc = "idle"
    /\ Len(images) < MaxImages
    /\ \/ UNCHANGED <<images, req>>                                \* create_image raised: 500
       \/ /\ images' = Append(images, image_record(user_id, original_path))
          /\ req' = [IdleReq EXCEPT !.route = "register", !.pc = "create_initial_metadata",
                                    !.user_id = user_id, !.image_id = Len(images) + 1]
    /\ UNCHANGED <<image_metadata, storage, task>>

\* POST /images/register, create_initial_metadata and the response
RegisterMetadata ==
    /\ req.route = "register" /\ req.pc = "create_initial_metadata"
    /\ \/ UNCHANGED image_metadata                                 \* raised: 500
       \/ image_metadata' = Append(image_metadata,
                initial_metadata(req.image_id, req.user_id, "pending"))   \* 201
    /\ req' = IdleReq
    /\ UNCHANGED <<images, storage, task>>

\* an upload the bounds leave room for: an image record, an original and a
\* slot for the invocation it will schedule
UploadAdmitted ==
    /\ req.pc = "idle"
    /\ Len(images) < MaxImages
    /\ Cardinality(Originals) < MaxOriginals
    /\ FreeSlots # {}

\* lines 114 and 120-121: content_type.startswith("image/"), len(file_content) > 0
valid_upload(content_type, file_content) ==
    content_type = "image/png" /\ file_content # ""

\* POST /images/upload (routes.py 114-125): 400, not an image or an empty file
UploadRejected(user_id, content_type, file_content) ==
    /\ UploadAdmitted
    /\ ~valid_upload(content_type, file_content)
    /\ UNCHANGED <<images, image_metadata, storage, task, req>>

\* POST /images/upload (routes.py 137-142, 171-176): upload_original raised, 500
UploadRaised(user_id, content_type, file_content) ==
    /\ UploadAdmitted
    /\ valid_upload(content_type, file_content)
    /\ UNCHANGED <<images, image_metadata, storage, task, req>>

\* POST /images/upload (routes.py 127-142): the path, upload_original
UploadStored(user_id, content_type, file_content) ==
    /\ UploadAdmitted
    /\ valid_upload(content_type, file_content)
    /\ LET object_path == StoragePath(user_id, "original", uuid4)
       IN  /\ storage' = storage @@ (object_path :> file_content)
           /\ req' = [IdleReq EXCEPT !.route = "upload", !.pc = "create_image",
                                     !.user_id = user_id, !.path = object_path]
    /\ UNCHANGED <<images, image_metadata, task>>

\* POST /images/upload (routes.py 109-142): validation, path, upload_original
UploadRoute(user_id, content_type, file_content) ==
    \/ UploadRejected(user_id, content_type, file_content)
    \/ UploadRaised(user_id, content_type, file_content)
    \/ UploadStored(user_id, content_type, file_content)

\* POST /images/upload (routes.py 142-146): create_image
UploadCreateImage ==
    /\ req.route = "upload" /\ req.pc = "create_image"
    /\ \/ /\ req' = IdleReq                                        \* raised: 500
          /\ UNCHANGED images
       \/ /\ images' = Append(images, image_record(req.user_id, req.path))
          /\ req' = [req EXCEPT !.pc = "create_initial_metadata",
                                !.image_id = Len(images) + 1]
    /\ UNCHANGED <<image_metadata, storage, task>>

\* add_task moved out of the try block: the invocation is scheduled whether
\* create_initial_metadata raised or not (a faulty variant: C19 must fail with
\* it)
UploadMetadata_enqueue_regardless ==
    /\ req.route = "upload" /\ req.pc = "create_initial_metadata"
    /\ \/ UNCHANGED image_metadata
       \/ image_metadata' = Append(image_metadata,
                initial_metadata(req.image_id, req.user_id, "pending"))
    /\ task' = add_task(req.image_id, req.user_id, req.path)
    /\ req' = IdleReq
    /\ UNCHANGED <<images, storage>>

\* POST /images/upload (routes.py 148-167): create_initial_metadata, add_task, 201
UploadMetadata ==
    /\ req.route = "upload" /\ req.pc = "create_initial_metadata"
    /\ \/ UNCHANGED <<image_metadata, task>>                       \* raised: 500
       \/ /\ image_metadata' = Append(image_metadata,
                    initial_metadata(req.image_id, req.user_id, "pending"))
          /\ task' = add_task(req.image_id, req.user_id, req.path)
    /\ req' = IdleReq
    /\ UNCHANGED <<images, storage>>

\* process_image called by any other caller, for an image record that exists,
\* on behalf of any user and with any path a client may name
CallProcess(image_id, user_id, original_path) ==
    /\ Cardinality(FreeSlots) > Reserved
    /\ task' = add_task(image_id, user_id, original_path)
    /\ UNCHANGED <<images, image_metadata, storage, req>>

\* ------------------------------------------------------------------- Next
Step(p) ==
    \/ VerifyOwnership(p)
    \/ IdempotencyGuard(p)
    \/ MarkRead(p)
    \/ MarkProcessing(p)
    \/ Download(p)
    \/ Thumbnail(p)
    \/ PersistThumbnailPath(p)
    \/ Analyze(p)
    \/ FinalRead(p)
    \/ FinalWrite(p)
    \/ FailRead(p)
    \/ FailWrite(p)

Next ==
    \/ \E p \in Procs : Step(p)
    \/ \E u \in Users, i \in ImageIds, q \in RequestPaths : ProcessRoute(u, i, q)
    \/ \E u \in Uploaders : RegisterRoute(u, ClientPath)
    \/ RegisterMetadata
    \/ \E u \in Uploaders, c \in ContentTypes, d \in FileContents : UploadRoute(u, c, d)
    \/ UploadCreateImage
    \/ UploadMetadata
    \/ \E u \in Users, i \in DOMAIN images, q \in RequestPaths : CallProcess(i, u, q)

Spec == Init /\ [][Next]_vars

\* An invocation runs in a worker thread of its own, and every call it makes
\* returns or raises: an invocation that can take a step takes one.
FairSpec == Spec /\ \A p \in Procs : WF_vars(Step(p))

\* ------------------------------------------------------- reading the record
\* the calls invocation p has made so far, by name
Names(p) == {task[p].calls[i][1] : i \in DOMAIN task[p].calls}
\* the calls of invocation p that returned normally
OkNames(p) == {task[p].calls[i][1] : i \in {j \in DOMAIN task[p].calls : task[p].calls[j][2]}}
\* how often invocation p has called `name`
Count(p, name) == Cardinality({i \in DOMAIN task[p].calls : task[p].calls[i][1] = name})
\* p took a step
Stepped(p) == task'[p] # task[p]
\* the image record p names exists and belongs to another user
NotOwner(p) ==
    /\ task[p].pc # "idle"
    /\ task[p].image_id \in DOMAIN images
    /\ images[task[p].image_id].user_id # task[p].user_id
Status(r) == image_metadata[r].ai_processing_status

\* --------------------------------------------------------------------- C1
\* C1: idempotence. When the idempotency guard of an invocation reads the
\* metadata of an image all of whose records (for that user) are `completed`,
\* the invocation ends there ("skipped") and the step changes neither table
\* nor the bucket; an invocation that ended this way has made the two reads
\* (ownership, metadata) and no other call: no metadata or image-record write,
\* no storage call, no analyzer call.
C1_GuardStep(p) ==
    ( /\ task[p].pc = "guard"
      /\ Stepped(p)
      /\ task'[p].exc = ""
      /\ metadata_rows(task[p].image_id, task[p].user_id) # {}
      /\ \A r \in metadata_rows(task[p].image_id, task[p].user_id) :
            Status(r) = "completed" )
    => /\ task'[p].pc = "skipped"
       /\ UNCHANGED <<images, image_metadata, storage>>
C1_Skipped(p) ==
    task[p].pc = "skipped" =>
        task[p].calls = << <<"verify_image_ownership", TRUE>>, <<"get_metadata", TRUE>> >>
C1_Idempotence ==
    [][\A p \in Procs : C1_GuardStep(p) /\ C1_Skipped(p)']_vars
C1_Witness ==
    \E p \in Procs :
        /\ task[p].pc = "skipped"
        /\ \E r \in metadata_rows(task[p].image_id, task[p].user_id) :
              Status(r) = "completed"

\* --------------------------------------------------------------------- C2
\* C2: ownership guard. No step of an invocation made on behalf of a user who
\* does not own the image changes the tables or the bucket.
C2_OwnershipGuardNoStateChange ==
    [][\A p \in Procs : (NotOwner(p) /\ Stepped(p))
            => UNCHANGED <<images, image_metadata, storage>>]_vars

\* --------------------------------------------------------------------- C3
\* C3: ownership gate. An invocation made on behalf of a user who does not own
\* the image never calls Storage or the analyzer (nor the codec), never
\* writes `processing` or `completed` or a thumbnail path, and no step of it
\* changes the status of any metadata record that exists, or the image record.
C3_Step(p) ==
    (NotOwner(p) /\ Stepped(p)) =>
        /\ storage' = storage
        /\ images' = images
        /\ \A r \in DOMAIN image_metadata :
              image_metadata'[r].ai_processing_status = Status(r)
C3_Calls(p) ==
    NotOwner(p) =>
        Names(p) \subseteq {"verify_image_ownership", "upsert:failed"}
C3_OwnershipGate ==
    [][\A p \in Procs : C3_Step(p) /\ C3_Calls(p)']_vars
C3_Witness ==
    \E p \in Procs : NotOwner(p) /\ task[p].pc = "raised" /\ task[p].exc = "ValueError"

\* --------------------------------------------------------------------- C4
\* C4: `completed` is terminal. No step changes the status of a metadata
\* record that is `completed`.
C4_CompletedIsTerminal ==
    [][\A r \in DOMAIN image_metadata :
            Status(r) = "completed" =>
                image_metadata'[r].ai_processing_status = "completed"]_vars

\* --------------------------------------------------------------------- C5
LastCall(t) == t.calls[Len(t.calls)]
\* p's handler leaves process_image in this step, after download_original raised
EndsAfterDownloadRaised(p) ==
    /\ task[p].exc = "download_original"
    /\ task[p].pc \in {"fail_read", "fail_write"}
    /\ task'[p].pc = "raised"
\* p has written no thumbnail, no thumbnail path and no results
NoResultsWritten(p) ==
    Names(p) \cap {"create_thumbnail", "upload_thumbnail", "update_thumbnail_path",
                   "analyze_image", "upsert:completed"} = {}

\* the image of p has one metadata record, and nothing else is under way
Alone(p) ==
    /\ req.pc = "idle"
    /\ \A q \in Procs \ {p} : ~Running(q)
    /\ Cardinality({r \in DOMAIN image_metadata :
                        image_metadata[r].image_id = task[p].image_id}) = 1

\* C5 as stated: when an invocation in which download_original raised ends
\* (nothing else under way), the metadata of its image has status `failed`,
\* and the invocation has written no thumbnail path and no description, tags
\* or colors.
C5_FailureMarksStatus ==
    [][\A p \in Procs : (EndsAfterDownloadRaised(p) /\ Alone(p)) =>
            /\ metadata_rows(task[p].image_id, task[p].user_id)' # {}
            /\ \A r \in metadata_rows(task[p].image_id, task[p].user_id)' :
                  image_metadata'[r].ai_processing_status = "failed"
            /\ NoResultsWritten(p)']_vars

\* C5 amended: when an invocation in which download_original raised ends, it
\* has attempted the `failed` write exactly once; if that write returned, the
\* record it went to (the one its upsert read, or the one it inserted) has
\* status `failed` and its description, tags and colors are as before; either
\* way the image table and the bucket are unchanged and the invocation has
\* written no thumbnail path and no description, tags or colors.
C5_Written(p) ==
    LET r == IF task[p].existing # 0 THEN task[p].existing ELSE Len(image_metadata')
    IN  /\ r \in DOMAIN image_metadata'
        /\ image_metadata'[r].ai_processing_status = "failed"
        /\ image_metadata'[r].image_id = task[p].image_id
        /\ image_metadata'[r].user_id = task[p].user_id
        /\ \A q \in DOMAIN image_metadata :
              /\ q # r => image_metadata'[q] = image_metadata[q]
              /\ image_metadata'[q].description = image_metadata[q].description
              /\ image_metadata'[q].tags = image_metadata[q].tags
              /\ image_metadata'[q].colors = image_metadata[q].colors
C5_FailureMarksStatusWhenWritten ==
    [][\A p \in Procs : EndsAfterDownloadRaised(p) =>
            /\ Count(p, "upsert:failed")' = 1
            /\ LastCall(task'[p])[1] = "upsert:failed"
            /\ LastCall(task'[p])[2] => (task[p].pc = "fail_write" /\ C5_Written(p))
            /\ UNCHANGED <<images, storage>>
            /\ NoResultsWritten(p)']_vars
C5_Witness ==
    \E p \in Procs :
        /\ task[p].pc = "raised"
        /\ task[p].exc = "download_original"
        /\ LastCall(task[p]) = <<"upsert:failed", TRUE>>
        /\ \E r \in metadata_rows(task[p].image_id, task[p].user_id) : Status(r) = "failed"

\* --------------------------------------------------------------------- C6
\* the exceptions raised before both guards have passed
GuardExceptions == {"ValueError", "verify_image_ownership", "get_metadata"}
\* C6: failure semantics. Once a call after the guards has raised, the only
\* further call of the invocation is one upsert_metadata(status="failed"),
\* attempted exactly once whether it returns or raises, and the exception the
\* invocation reports is the one that was caught.
C6_FailureSemantics ==
    \A p \in Procs :
        (task[p].exc # "" /\ task[p].exc \notin GuardExceptions) =>
            LET c == task[p].calls
                n == Len(c)
            IN  /\ task[p].pc \in {"fail_read", "fail_write", "raised"}
                /\ task[p].pc # "raised" =>
                      /\ c[n] = <<task[p].exc, FALSE>>
                      /\ Count(p, "upsert:failed") = 0
                      /\ \A i \in 1..(n - 1) : c[i][2]
                /\ task[p].pc = "raised" =>
                      /\ task[p].reported = task[p].exc
                      /\ Count(p, "upsert:failed") = 1
                      /\ c[n][1] = "upsert:failed"
                      /\ c[n - 1] = <<task[p].exc, FALSE>>
                      /\ \A i \in 1..(n - 2) : c[i][2]
C6_Witness ==
    \E p \in Procs :
        /\ task[p].pc = "raised"
        /\ task[p].exc = "analyze_image"
        /\ task[p].reported = "analyze_image"
        /\ LastCall(task[p]) = <<"upsert:failed", FALSE>>

\* --------------------------------------------------------------------- C7
Pipeline ==
    <<"upsert:processing", "download_original", "create_thumbnail", "upload_thumbnail",
      "update_thumbnail_path", "extract_dominant_colors", "analyze_image",
      "upsert:completed">>
InPipeline(call) == \E i \in DOMAIN Pipeline : Pipeline[i] = call[1]
PipelineCalls(p) == SelectSeq(task[p].calls, InPipeline)
\* C7: sequential pipeline. The pipeline calls an invocation has made are an
\* initial part of the pipeline, in its order, each made once; all but the
\* last have returned normally; an invocation that returned after the guard
\* has made all eight, and all returned normally.
C7_SequentialPipeline ==
    \A p \in Procs :
        LET c == PipelineCalls(p)
        IN  /\ Len(c) <= Len(Pipeline)
            /\ \A i \in DOMAIN c :
                  /\ c[i][1] = Pipeline[i]
                  /\ i < Len(c) => c[i][2]
            /\ task[p].pc = "returned" =>
                  /\ Len(c) = Len(Pipeline)
                  /\ c[Len(c)][2]
C7_Witness == \E p \in Procs : task[p].pc = "returned"

\* --------------------------------------------------------------------- C8
\* the metadata rows whose status this step made `completed`
BecameCompleted ==
    {r \in DOMAIN image_metadata' :
        /\ image_metadata'[r].ai_processing_status = "completed"
        /\ r \in DOMAIN image_metadata => Status(r) # "completed"}
\* C8: a step that makes a record `completed` is the final write of an
\* invocation that has downloaded the original, uploaded a thumbnail,
\* persisted its path, extracted the colors and got the analyzer's answer,
\* and the record then holds that invocation's description, tags and colors.
C8_CompletedOnlyByFinalWrite ==
    [][\A r \in BecameCompleted :
            \E p \in Procs :
                /\ task[p].pc = "final_write"
                /\ task'[p].pc = "returned"
                /\ {"download_original", "upload_thumbnail", "update_thumbnail_path",
                    "extract_dominant_colors", "analyze_image"} \subseteq OkNames(p)
                /\ image_metadata'[r].image_id = task[p].image_id
                /\ image_metadata'[r].user_id = task[p].user_id
                /\ image_metadata'[r].description =
                        Some(description_text(task[p].analysis[1].description))
                /\ image_metadata'[r].tags = Some(task[p].analysis[1].tags)
                /\ image_metadata'[r].colors =
                        Some(extract_dominant_colors(task[p].original_bytes, top_n))]_vars
C8_Witness ==
    \E r \in DOMAIN image_metadata :
        /\ Status(r) = "completed"
        /\ image_metadata[r].description # None
        /\ image_metadata[r].tags # None
        /\ image_metadata[r].colors # None

\* --------------------------------------------------------------------- C9
\* the guard of p reads metadata none of whose records is `completed`
C9_GuardLetsThrough(p) ==
    ( /\ task[p].pc = "guard"
      /\ Stepped(p)
      /\ task'[p].exc = ""
      /\ \A r \in metadata_rows(task[p].image_id, task[p].user_id) :
            Status(r) # "completed" )
    => task'[p].pc = "mark_read"
\* the final write of p returns: the record it went to holds p's results
C9_FinalWriteApplied(p) ==
    (task[p].pc = "final_write" /\ task'[p].pc = "returned") =>
        LET r == IF task[p].existing # 0 THEN task[p].existing ELSE Len(image_metadata')
        IN  /\ r \in DOMAIN image_metadata'
            /\ image_metadata'[r] =
                 [image_id |-> task[p].image_id, user_id |-> task[p].user_id,
                  ai_processing_status |-> "completed",
                  description |-> Some(description_text(task[p].analysis[1].description)),
                  tags |-> Some(task[p].analysis[1].tags),
                  colors |-> Some(extract_dominant_colors(task[p].original_bytes, top_n))]
\* C9: no mutual exclusion. Whatever other invocations are doing, a guard that
\* reads a status other than `completed` lets its invocation through, an
\* invocation under way always has a step it can take, and a final write that
\* returns leaves its own description, tags, colors and `completed` in the
\* record, whatever the record held (last writer wins).
C9_NoMutualExclusion ==
    [][\A p \in Procs :
            /\ C9_GuardLetsThrough(p)
            /\ C9_FinalWriteApplied(p)
            /\ Running(p) => ENABLED Step(p)]_vars
\* two invocations for the same image and user both ran to the end, each with
\* a thumbnail of its own in the bucket
C9_Witness ==
    \E p, q \in Procs :
        /\ p # q
        /\ task[p].pc = "returned" /\ task[q].pc = "returned"
        /\ task[p].image_id = task[q].image_id
        /\ task[p].user_id = task[q].user_id
        /\ task[p].thumbnail_path # task[q].thumbnail_path
        /\ {task[p].thumbnail_path, task[q].thumbnail_path} \subseteq DOMAIN storage

\* -------------------------------------------------------------------- C10
Quiescent == req.pc = "idle" /\ \A p \in Procs : ~Running(p)
\* C10: whenever no request and no invocation is under way, every image
\* record has exactly one metadata record.
C10_OneMetadataPerImage ==
    Quiescent =>
        \A i \in DOMAIN images :
            Cardinality({r \in DOMAIN image_metadata : image_metadata[r].image_id = i}) = 1

\* -------------------------------------------------------------------- C11
\* the first n entries of a sequence, in their order
FirstN(seq, n) == [i \in 1..n |-> seq[i]]
\* the tags a metadata row may hold for the analyzer's answer `parsed`: the
\* first min(k, max_tags) of its k string tags
PersistedTags(parsed) ==
    LET st == string_tags(parsed.tags)
    IN  FirstN(st, Min(Len(st), max_tags))
\* C11: tag bound. The tags of every metadata row, when present, are at most
\* max_tags many, and are the first min(k, max_tags) of the k string tags of
\* one of the analyzer's answers, in their order; for the answer with twelve
\* tags they are exactly its first eight.
C11_TagBound ==
    \A r \in DOMAIN image_metadata :
        image_metadata[r].tags # None =>
            LET tags == image_metadata[r].tags[1]
            IN  /\ Len(tags) <= max_tags
                /\ \E parsed \in AnalyzerAnswers : tags = PersistedTags(parsed)
                /\ image_metadata[r].description = Some("a harbour at dusk") =>
                      tags = <<"t01", "t02", "t03", "t04", "t05", "t06", "t07", "t08">>
C11_Witness ==
    \E r \in DOMAIN image_metadata :
        /\ image_metadata[r].description = Some("a harbour at dusk")
        /\ image_metadata[r].tags # None
        /\ Len(image_metadata[r].tags[1]) = max_tags

\* -------------------------------------------------------------------- C12
\* C12 as stated: the colors of every metadata row, when present, are exactly
\* top_n many.
C12_ColorsExactlyTopN ==
    \A r \in DOMAIN image_metadata :
        image_metadata[r].colors # None => Len(image_metadata[r].colors[1]) = top_n
\* C12 amended: the colors of every metadata row, when present, are at least
\* one and at most top_n many: the three most populous colours of a picture
\* that quantizes to three, the single colour of a single-colour picture.
C12_ColorsAtMostTopN ==
    \A r \in DOMAIN image_metadata :
        image_metadata[r].colors # None =>
            LET colors == image_metadata[r].colors[1]
            IN  /\ Len(colors) \in 1..top_n
                /\ colors \in {<<"#a01010", "#10a010", "#1010a0">>, <<"#ffffff">>}
C12_Witness ==
    \E r \in DOMAIN image_metadata :
        /\ image_metadata[r].colors # None
        /\ Len(image_metadata[r].colors[1]) < top_n

\* -------------------------------------------------------------------- C13
\* the image record exists and belongs to the user
Owns(user_id, image_id) ==
    image_id \in DOMAIN images /\ images[image_id].user_id = user_id
\* the step starts exactly one invocation, process_image(image_id, user_id,
\* original_path), and touches no other
SchedulesOne(image_id, user_id, original_path) ==
    \E p \in Procs :
        /\ task[p].pc = "idle"
        /\ task'[p] = [IdleTask EXCEPT !.pc = "verify", !.image_id = image_id,
                            !.user_id = user_id, !.original_path = original_path]
        /\ \A o \in Procs \ {p} : task'[o] = task[o]
\* C13: ingress gate of POST /images/process. For a request of a user who does
\* not own the image the only answers are 403 and (the query failing) 500, and
\* a step giving either starts no invocation; the answer 202 "queued" is
\* possible only for the owner, and the step giving it starts exactly one
\* invocation, process_image(image_id, current_user_id, original_path), the
\* ownership check having passed in that same step.
C13_IngressGate ==
    [][\A u \in Users, i \in ImageIds, q \in RequestPaths :
          /\ ~Owns(u, i) => ~ENABLED ProcessQueued(u, i, q)
          /\ Owns(u, i) => ~ENABLED ProcessForbidden(u, i, q)
          /\ ProcessForbidden(u, i, q) => ~Owns(u, i) /\ task' = task
          /\ ProcessFailed(u, i, q) => task' = task
          /\ ProcessQueued(u, i, q) => Owns(u, i) /\ SchedulesOne(i, u, q)]_vars
\* a request of the owner has been queued, and a request of another user can
\* be made and can only be refused
C13_Witness ==
    /\ \E p \in Procs : task[p].pc = "verify" /\ Owns(task[p].user_id, task[p].image_id)
    /\ \E u \in Users, i \in DOMAIN images, q \in RequestPaths :
          ~Owns(u, i) /\ ENABLED ProcessForbidden(u, i, q)

\* -------------------------------------------------------------------- C14
\* the record an upsert of p that read `existing` writes to
Target(p) == IF task[p].existing # 0 THEN task[p].existing ELSE Len(image_metadata) + 1
\* C14: retry by re-invocation. (1) The guard of an invocation that reads
\* metadata all of whose records are `failed` or `processing` lets it through
\* to the write of `processing`; (2) when that write returns, the record it
\* went to is `processing` and the invocation goes on with the download, having
\* made no pipeline call before; (3) when the final write of an invocation
\* returns, every pipeline call of it has returned normally and the record
\* written is `completed`.
C14_RetryByReinvocation ==
    [][\A p \in Procs : Stepped(p) =>
          /\ ( /\ task[p].pc = "guard"
               /\ task'[p].exc = ""
               /\ metadata_rows(task[p].image_id, task[p].user_id) # {}
               /\ \A r \in metadata_rows(task[p].image_id, task[p].user_id) :
                     Status(r) \in {"failed", "processing"} )
             => task'[p].pc = "mark_read"
          /\ (task[p].pc = "mark_write" /\ task'[p].exc = "")
             => /\ task'[p].pc = "download"
                /\ PipelineCalls(p) = <<>>
                /\ Target(p) \in DOMAIN image_metadata'
                /\ image_metadata'[Target(p)].ai_processing_status = "processing"
          /\ (task[p].pc = "final_write" /\ task'[p].exc = "")
             => /\ task'[p].pc = "returned"
                /\ {Pipeline[i] : i \in DOMAIN Pipeline} \subseteq
                      {task'[p].calls[j][1] : j \in {k \in DOMAIN task'[p].calls :
                                                        task'[p].calls[k][2]}}
                /\ image_metadata'[Target(p)].ai_processing_status = "completed"]_vars
\* one invocation failed and wrote `failed`; another invocation for the same
\* image and user ran to the end, and the record is `completed`
C14_Witness ==
    \E p, q \in Procs :
        /\ task[q].pc = "raised" /\ LastCall(task[q]) = <<"upsert:failed", TRUE>>
        /\ task[p].pc = "returned"
        /\ task[p].image_id = task[q].image_id /\ task[p].user_id = task[q].user_id
        /\ \A r \in metadata_rows(task[p].image_id, task[p].user_id) :
              Status(r) = "completed"

\* -------------------------------------------------------------------- C15
\* p is in its failure path after the thumbnail step: its thumbnail is in the
\* bucket and its path was written to the image record before the exception
FailingAfterThumbnail(p) ==
    /\ task[p].pc \in {"fail_read", "fail_write"}
    /\ "update_thumbnail_path" \in OkNames(p)
\* C15: no rollback on failure. A step of the failure path of an invocation
\* that failed after the thumbnail step changes neither the bucket nor the
\* image records, so the uploaded thumbnail and the persisted thumbnail path
\* stay; it changes no description, tags or colors of any metadata record and
\* deletes none: of the records there were, only the status of one may change
\* (a record it inserts has the status and no results).
C15_NoRollback ==
    [][\A p \in Procs : (FailingAfterThumbnail(p) /\ Stepped(p)) =>
          /\ storage' = storage
          /\ images' = images
          /\ task[p].thumbnail_path \in DOMAIN storage
          /\ Len(image_metadata') >= Len(image_metadata)
          /\ \A r \in DOMAIN image_metadata :
                /\ image_metadata'[r].description = image_metadata[r].description
                /\ image_metadata'[r].tags = image_metadata[r].tags
                /\ image_metadata'[r].colors = image_metadata[r].colors
                /\ image_metadata'[r].image_id = image_metadata[r].image_id
                /\ image_metadata'[r].user_id = image_metadata[r].user_id
          /\ \A r \in DOMAIN image_metadata' \ DOMAIN image_metadata :
                /\ image_metadata'[r].description = None
                /\ image_metadata'[r].tags = None
                /\ image_metadata'[r].colors = None]_vars
\* an invocation failed in the analysis and wrote `failed` over a record that
\* holds the results of an earlier run; its thumbnail is in the bucket and its
\* path is the one on the image record
C15_Witness ==
    \E p \in Procs :
        /\ task[p].pc = "raised" /\ task[p].exc = "analyze_image"
        /\ LastCall(task[p]) = <<"upsert:failed", TRUE>>
        /\ task[p].thumbnail_path \in DOMAIN storage
        /\ images[task[p].image_id].thumbnail_path = Some(task[p].thumbnail_path)
        /\ \E r \in metadata_rows(task[p].image_id, task[p].user_id) :
              /\ Status(r) = "failed"
              /\ image_metadata[r].description # None
              /\ image_metadata[r].tags # None
              /\ image_metadata[r].colors # None

\* -------------------------------------------------------------------- C16
\* the values a caller may pass for an optional field: absent, or a value
Optional(v) == {None, Some(v)}
\* C16: frame of upsert_metadata. On every table the program can produce, for
\* every image, user, status and every record of theirs get_metadata may have
\* returned (or none): upsert_metadata with description, tags and colors
\* absent leaves these fields of the record as they are, sets its status, and
\* leaves every other record as it is; with no record it adds one, with the
\* status and no results. When tags are passed as well, they are overwritten
\* and the absent description and colors are still left as they are.
C16_UpsertFrame ==
    \A i \in ImageIds, u \in Users, s \in Statuses :
    \A existing \in metadata_rows(i, u) \cup {0} :
    \A g \in Optional(<<"tag">>) :
        LET d == None
            c == None
            t == upsert_metadata(existing, i, u, d, g, c, s)
            n == Len(image_metadata)
            w == IF existing # 0 THEN existing ELSE n + 1
        IN  /\ Len(t) = IF existing # 0 THEN n ELSE n + 1
            /\ \A r \in DOMAIN image_metadata \ {w} : t[r] = image_metadata[r]
            /\ t[w].image_id = i /\ t[w].user_id = u
            /\ t[w].ai_processing_status = s
            /\ t[w].description =
                  IF d # None THEN d ELSE IF existing # 0 THEN image_metadata[w].description ELSE None
            /\ t[w].tags =
                  IF g # None THEN g ELSE IF existing # 0 THEN image_metadata[w].tags ELSE None
            /\ t[w].colors =
                  IF c # None THEN c ELSE IF existing # 0 THEN image_metadata[w].colors ELSE None
\* a status-only upsert has been applied to a record that holds results: the
\* record is `processing` or `failed` and still has them, while another record
\* is there as well
C16_Witness ==
    \E r \in DOMAIN image_metadata :
        /\ Status(r) \in {"processing", "failed"}
        /\ image_metadata[r].description # None
        /\ image_metadata[r].tags # None
        /\ image_metadata[r].colors # None
        /\ Len(image_metadata) > 1

\* -------------------------------------------------------------------- C17
\* p has reached the thumbnail step and generated its thumbnail path
GeneratedPath(p) == "create_thumbnail" \in OkNames(p)
\* C17: thumbnail path uniqueness. Any two invocations that have reached the
\* thumbnail step hold different thumbnail paths (whether for the same image
\* or not), neither of them the path of an original; so the object an
\* invocation uploaded is at a path no other invocation uploads to.
C17_ThumbnailPathUnique ==
    \A p, q \in Procs :
        (p # q /\ GeneratedPath(p) /\ GeneratedPath(q)) =>
            /\ task[p].thumbnail_path # task[q].thumbnail_path
            /\ task[p].thumbnail_path \notin Originals
            /\ "upload_thumbnail" \in OkNames(p) =>
                  /\ task[p].thumbnail_path \in DOMAIN storage
                  /\ storage[task[p].thumbnail_path] = "jpeg"
\* two invocations for the same image have both uploaded a thumbnail
C17_Witness ==
    \E p, q \in Procs :
        /\ p # q
        /\ task[p].image_id = task[q].image_id
        /\ "upload_thumbnail" \in OkNames(p)
        /\ "upload_thumbnail" \in OkNames(q)
        /\ Cardinality({x \in DOMAIN storage : x.kind = "thumbnails"}) = 2

\* -------------------------------------------------------------------- C18
\* the calls of which an invocation makes at most one
OnceCalls ==
    {"download_original", "upload_thumbnail", "update_thumbnail_path", "analyze_image",
     "upsert:completed", "upsert:failed"}
\* the update of `completed` of p was sent and raised: p is at the start of
\* the except block, the record the update was for still in its frame
CompletedWriteRaised(p) ==
    /\ task[p].pc = "fail_read"
    /\ task[p].exc = "upsert:completed"
    /\ task[p].existing # 0
\* C18 as stated, its last part: no invocation attempts both the write of
\* `completed` and the write of `failed`, so an invocation whose write of
\* `completed` raised does not go on to call the write of `failed`.
C18_OneTerminalWrite ==
    [][\A p \in Procs : (CompletedWriteRaised(p) /\ Stepped(p)) =>
          "upsert:failed" \notin {task'[p].calls[i][1] : i \in DOMAIN task'[p].calls}
          /\ task'[p].pc # "fail_write"]_vars
\* p has made each call at most once; it attempts the write of `failed` only
\* if no write of `completed` of it has returned, and then it does not return
C18_Once(p) ==
    /\ \A name \in OnceCalls : Count(p, name) <= 1
    /\ "upsert:failed" \in Names(p) =>
          /\ "upsert:completed" \notin OkNames(p)
          /\ task[p].pc \in {"fail_read", "fail_write", "raised"}
    /\ task[p].pc = "returned" => "upsert:completed" \in OkNames(p)
\* C18 amended: no retry, no cancellation. Every invocation under way comes
\* to an end (returned, skipped or raised); an invocation calls
\* download_original, upload_thumbnail, update_thumbnail_path and analyze_image
\* at most once each, attempts the write of `completed` at most once and the
\* write of `failed` at most once, the latter only when a call of it raised
\* (the write of `completed` included), so at most one of the two returns.
C18_NoRetryTerminates ==
    /\ [](\A p \in Procs : C18_Once(p))
    /\ \A p \in Procs : Running(p) ~> task[p].pc \in {"returned", "skipped", "raised"}
\* an invocation whose write of `completed` raised has attempted the write of
\* `failed` and ended by raising, each pipeline call made once
C18_Witness ==
    \E p \in Procs :
        /\ task[p].pc = "raised"
        /\ task[p].exc = "upsert:completed"
        /\ "upsert:failed" \in OkNames(p)
        /\ \A name \in OnceCalls : Count(p, name) = 1

\* -------------------------------------------------------------------- C19
\* the step starts an invocation
Enqueues == \E p \in Procs : task[p].pc = "idle" /\ task'[p].pc # "idle"
\* the file passes the validation of the upload route
IsImageFile(content_type, file_content) ==
    content_type \in {"image/png"} /\ file_content \in ImageContents
\* a step of the upload handler, after its first
UploadStep == req.route = "upload" /\ req' # req
\* C19: ordering of POST /images/upload. (1) A request that fails validation
\* can only be rejected, and the step rejecting it changes nothing: no object,
\* no record, no invocation. (2) The steps of the handler come in the order
\* upload_original, create_image, create_initial_metadata + add_task: the
\* first stores the original and nothing else; the second, the original in
\* the bucket, adds the image record and nothing else; the third, the image
\* record there, adds the `pending` metadata record and starts exactly one
\* invocation, process_image(image_id, user_id, object_path). (3) A step in
\* which the call raises ends the handler and starts no invocation; no other
\* step of the handler starts one.
C19_UploadOrdering ==
    [][/\ \A u \in Uploaders, c \in ContentTypes, d \in FileContents :
            /\ ~IsImageFile(c, d) =>
                  /\ ~ENABLED UploadStored(u, c, d)
                  /\ ~ENABLED UploadRaised(u, c, d)
            /\ UploadRejected(u, c, d) => ~IsImageFile(c, d) /\ UNCHANGED vars
            /\ UploadRaised(u, c, d) => UNCHANGED vars
            /\ UploadStored(u, c, d) =>
                  /\ IsImageFile(c, d)
                  /\ req'.path \notin DOMAIN storage
                  /\ storage' = storage @@ (req'.path :> d)
                  /\ req'.route = "upload" /\ req'.pc = "create_image"
                  /\ UNCHANGED <<images, image_metadata, task>>
       /\ (UploadStep /\ req.pc = "create_image") =>
            /\ req.path \in DOMAIN storage
            /\ UNCHANGED <<image_metadata, storage, task>>
            /\ \/ req' = IdleReq /\ images' = images
               \/ /\ req'.pc = "create_initial_metadata"
                  /\ images' = Append(images,
                        [user_id |-> req.user_id, original_path |-> req.path,
                         thumbnail_path |-> None])
                  /\ req'.image_id = Len(images')
       /\ (UploadStep /\ req.pc = "create_initial_metadata") =>
            /\ req.path \in DOMAIN storage
            /\ req.image_id \in DOMAIN images
            /\ images[req.image_id].original_path = req.path
            /\ UNCHANGED <<images, storage>>
            /\ req' = IdleReq
            /\ \/ image_metadata' = image_metadata /\ task' = task
               \/ /\ image_metadata' = Append(image_metadata,
                        [image_id |-> req.image_id, user_id |-> req.user_id,
                         ai_processing_status |-> "pending",
                         description |-> None, tags |-> None, colors |-> None])
                  /\ SchedulesOne(req.image_id, req.user_id, req.path)
       /\ (UploadStep /\ Enqueues) => req.pc = "create_initial_metadata"]_vars
\* an upload has gone through: the original is in the bucket, the image record
\* and its `pending` metadata record are there, and the invocation for them
\* has been scheduled and has not yet taken a step
C19_Witness ==
    \E p \in Procs :
        /\ req.pc = "idle"
        /\ task[p].pc = "verify"
        /\ task[p].original_path \in Originals
        /\ task[p].image_id \in DOMAIN images
        /\ images[task[p].image_id].original_path = task[p].original_path
        /\ \E r \in metadata_rows(task[p].image_id, task[p].user_id) : Status(r) = "pending"

\* -------------------------------------------------------------------- C20
\* C20: in every state, a metadata record with status `completed` has a
\* description, tags and colors, and the image record it belongs to exists and
\* has a thumbnail path, that of an object in the bucket.
C20_CompletedHasResults ==
    \A r \in DOMAIN image_metadata :
        Status(r) = "completed" =>
            /\ image_metadata[r].description # None
            /\ image_metadata[r].tags # None
            /\ image_metadata[r].colors # None
            /\ image_metadata[r].image_id \in DOMAIN images
            /\ images[image_metadata[r].image_id].thumbnail_path # None
            /\ images[image_metadata[r].image_id].thumbnail_path[1] \in DOMAIN storage
\* a record is `completed` while another invocation for its image is under
\* way, past the guard
C20_Witness ==
    \E r \in DOMAIN image_metadata :
        /\ Status(r) = "completed"
        /\ \E p \in Procs :
              /\ Running(p)
              /\ task[p].image_id = image_metadata[r].image_id
              /\ "upsert:processing" \in Names(p)

\* -------------------------------------------------------------------- C21
\* every upsert_metadata call p has made returned normally
WritesSucceeded(p) ==
    \A i \in DOMAIN task[p].calls :
        task[p].calls[i][1] \in {"upsert:processing", "upsert:completed", "upsert:failed"}
            => task[p].calls[i][2]
\* p has ended after passing both guards and writing `processing`
EndedPastGuards(p) ==
    /\ task[p].pc \in {"returned", "raised"}
    /\ "upsert:processing" \in Names(p)
\* C21: an invocation that has ended after passing both guards, every
\* upsert_metadata call of it having returned, made as its last call the write
\* of `completed` (it returned) or the write of `failed` (it raised); so
\* whenever nothing is under way and every upsert_metadata call made has
\* returned, no metadata record is `processing`.
C21_EndsTerminal ==
    /\ \A p \in Procs :
          (EndedPastGuards(p) /\ WritesSucceeded(p)) =>
              \/ task[p].pc = "returned" /\ LastCall(task[p]) = <<"upsert:completed", TRUE>>
              \/ task[p].pc = "raised" /\ LastCall(task[p]) = <<"upsert:failed", TRUE>>
    /\ (Quiescent /\ \A p \in Procs : WritesSucceeded(p)) =>
          \A r \in DOMAIN image_metadata : Status(r) # "processing"

\* -------------------------------------------------------------------- C22
\* the metadata records a step wrote: the new ones and the changed ones
Written ==
    {r \in DOMAIN image_metadata' :
        r \in DOMAIN image_metadata => image_metadata'[r] # image_metadata[r]}
\* C22: the status of every metadata record is always one of `pending`,
\* `processing`, `completed`, `failed`; a record an invocation writes gets
\* `processing`, `completed` or `failed`; no record is deleted, and a record
\* that is not `pending` is not `pending` after any step.
C22_StatusDomain ==
    /\ [](\A r \in DOMAIN image_metadata : Status(r) \in Statuses)
    /\ [][/\ \A p \in Procs : (Running(p) /\ Stepped(p)) =>
                \A r \in Written :
                    image_metadata'[r].ai_processing_status \in
                        {"processing", "completed", "failed"}
          /\ \A r \in DOMAIN image_metadata :
                /\ r \in DOMAIN image_metadata'
                /\ Status(r) # "pending" =>
                      image_metadata'[r].ai_processing_status # "pending"]_vars
\* a record created `pending` by a route has been written by two invocations,
\* the second a retry after the first one's `failed`
C22_Witness ==
    \E p, q \in Procs :
        /\ p # q
        /\ task[p].pc = "raised" /\ "upsert:failed" \in OkNames(p)
        /\ "upsert:processing" \in OkNames(q)
        /\ task[p].image_id = task[q].image_id /\ task[p].user_id = task[q].user_id
        /\ Len(image_metadata) = 1
        /\ Status(1) \in {"processing", "completed", "failed"}

\* -------------------------------------------------------------------- C23
\* some invocation has uploaded a thumbnail object at `path`
UploadedThumbnail(path) ==
    /\ path \in DOMAIN storage
    /\ storage[path] = "jpeg"
    /\ \E p \in Procs :
          /\ task[p].thumbnail_path = path
          /\ "upload_thumbnail" \in OkNames(p)
\* C23: the thumbnail path of every image record is always either unset or a
\* path at which an invocation has uploaded a thumbnail object, that
\* invocation one for this image; and no step unsets a thumbnail path that is
\* set or removes an image record.
C23_ThumbnailPathSound ==
    /\ [](\A i \in DOMAIN images :
            images[i].thumbnail_path # None =>
                /\ UploadedThumbnail(images[i].thumbnail_path[1])
                /\ \E p \in Procs :
                      /\ task[p].thumbnail_path = images[i].thumbnail_path[1]
                      /\ task[p].image_id = i)
    /\ [][\A i \in DOMAIN images :
            /\ i \in DOMAIN images'
            /\ images[i].thumbnail_path # None => images'[i].thumbnail_path # None]_vars
\* the thumbnail path of an image record was set by one invocation and then
\* set again by another: both thumbnails are in the bucket
C23_Witness ==
    \E p, q \in Procs :
        /\ p # q
        /\ task[p].image_id = task[q].image_id
        /\ {"update_thumbnail_path"} \subseteq OkNames(p) \cap OkNames(q)
        /\ images[task[p].image_id].thumbnail_path = Some(task[q].thumbnail_path)
        /\ UploadedThumbnail(task[p].thumbnail_path)

====
